---- MODULE Spec2Model ----
(***************************************************************************)
(* The nes adapter (ESOper / esOper) over the Elasticsearch client, and    *)
(* TemplateParam.  One behaviour is: NewESOper(client), then one call of a *)
(* method of the adapter.  The wrapped client and the template engine are  *)
(* collaborators: what the client answers is chosen by the environment.    *)
(*                                                                         *)
(* Text (queries, request bodies, response bodies, error messages) is a    *)
(* sequence of string tokens, so that encoding, decoding, rendering and    *)
(* message formatting are computed and can go wrong.                       *)
(***************************************************************************)
EXTENDS Integers, Sequences, FiniteSets, TLC

VARIABLES
    client,        \* esOper.client, the held reference
    debugEnabled,  \* nlog.IsLevelEnabled(nlog.DebugLevel)
    pc,            \* "idle" before the call, "done" after it has returned
    method,        \* the method that was called
    args,          \* its arguments
    outcome,       \* what the wrapped client answered (NoOutcome if not asked)
    requests,      \* the requests issued to the wrapped client, in order
    events,        \* what the call did, in order
    retVal,        \* the returned value (first result)
    retErr,        \* the returned error
    panicked,      \* the call ended in a run-time panic instead of returning
    dest,          \* the content of the caller-provided model after the call
    calls,         \* concurrent calls on the one adapter: per goroutine, its call
    closedBy       \* per goroutine, who closed the body of the response it got

vars == <<client, debugEnabled, pc, method, args, outcome, requests, events,
          retVal, retErr, panicked, dest, calls, closedBy>>

(***************************************************************************)
(* Bounds.                                                                 *)
(***************************************************************************)
MaxOpts == 1     \* caller-supplied options per call
MaxCount == 2    \* largest "count" a response carries
MaxIds == 1      \* ids per MultiGet

(***************************************************************************)
(* Values, errors.                                                         *)
(***************************************************************************)
NilVal == [kind |-> "nil", ref |-> "", n |-> 0]
ModelVal(m) == [kind |-> "model", ref |-> m, n |-> 0]
IntVal(k) == [kind |-> "int", ref |-> "", n |-> k]
Int64Val(k) == [kind |-> "int64", ref |-> "", n |-> k]

NoErr == [kind |-> "nil", msg |-> <<>>]
ErrEOF == [kind |-> "io.EOF", msg |-> <<"EOF">>]
ErrUnexpectedEOF == [kind |-> "io.ErrUnexpectedEOF", msg |-> <<"unexpected EOF">>]
ErrSyntax(t) == [kind |-> "json.SyntaxError", msg |-> <<"invalid character", t>>]
ErrUnsupportedType(t) == [kind |-> "json.UnsupportedTypeError",
                          msg |-> <<"json: unsupported type: ", t>>]
ErrTransport == [kind |-> "transport", msg |-> <<"dial tcp: connection refused">>]
ErrCanceled == [kind |-> "context.Canceled", msg |-> <<"context canceled">>]

(***************************************************************************)
(* JSON text.                                                              *)
(***************************************************************************)
NumText == <<"0", "1", "2", "3", "4", "5">>
NumTok(k) == NumText[k + 1]
IsNumTok(t) == \E k \in 1..Len(NumText) : NumText[k] = t
NumOf(t) == (CHOOSE k \in 1..Len(NumText) : NumText[k] = t) - 1

Punct == {"{", "}", ":", ",", "[", "]", "\n"}
KeyOrder == <<"count", "found", "title", "took">>
IsValueTok(t) == IsNumTok(t) \/ t \in {"true", "false", "\"x\"", "\"y\""}

EmptyObj == <<>>

\* The fields of an object, in the encoder's key order.
RECURSIVE MarshalFields(_, _)
MarshalFields(obj, i) ==
    IF i > Len(KeyOrder) THEN <<>>
    ELSE LET k == KeyOrder[i]
             rest == MarshalFields(obj, i + 1)
         IN IF k \in DOMAIN obj
            THEN <<k, ":", obj[k]>> \o (IF rest = <<>> THEN <<>> ELSE <<",">> \o rest)
            ELSE rest

Marshal(obj) == <<"{">> \o MarshalFields(obj, 1) \o <<"}">>

\* key:value (,key:value)* between the braces; a later key overrides.
RECURSIVE ParseFields(_)
ParseFields(toks) ==
    IF Len(toks) >= 3 /\ toks[1] \notin Punct /\ toks[2] = ":" /\ IsValueTok(toks[3])
    THEN IF Len(toks) = 3
         THEN [ok |-> TRUE, obj |-> (toks[1] :> toks[3]), bad |-> ""]
         ELSE IF toks[4] = "," /\ Len(toks) > 4
              THEN LET r == ParseFields(SubSeq(toks, 5, Len(toks)))
                   IN IF r.ok
                      THEN [ok |-> TRUE,
                            obj |-> [k \in DOMAIN r.obj \cup {toks[1]} |->
                                       IF k \in DOMAIN r.obj THEN r.obj[k] ELSE toks[3]],
                            bad |-> ""]
                      ELSE r
              ELSE [ok |-> FALSE, obj |-> EmptyObj, bad |-> toks[4]]
    ELSE [ok |-> FALSE, obj |-> EmptyObj, bad |-> IF toks = <<>> THEN "}" ELSE toks[1]]

\* json.NewDecoder(body).Decode(&v): reads one JSON value off the stream.
JSONDecode(body) ==
    IF body = <<>> THEN [err |-> ErrEOF, obj |-> EmptyObj]
    ELSE IF body[1] # "{" THEN [err |-> ErrSyntax(body[1]), obj |-> EmptyObj]
    ELSE IF ~ \E j \in 2..Len(body) : body[j] = "}"
         THEN [err |-> ErrUnexpectedEOF, obj |-> EmptyObj]
    ELSE LET j == CHOOSE i \in 2..Len(body) :
                      body[i] = "}" /\ \A h \in 2..(i - 1) : body[h] # "}"
             inner == SubSeq(body, 2, j - 1)
         IN IF inner = <<>> THEN [err |-> NoErr, obj |-> EmptyObj]
            ELSE LET r == ParseFields(inner)
                 IN IF r.ok THEN [err |-> NoErr, obj |-> r.obj]
                    ELSE [err |-> ErrSyntax(r.bad), obj |-> EmptyObj]

(***************************************************************************)
(* The wrapped client's response (esapi.Response) and what the adapter     *)
(* reads off it.                                                           *)
(***************************************************************************)
StatusCodes == {200, 404, 500}
CodeText(c) == CASE c = 200 -> "200" [] c = 404 -> "404" [] c = 500 -> "500" [] OTHER -> "0"
StatusText(c) == CASE c = 200 -> "OK"
                   [] c = 404 -> "Not Found"
                   [] c = 500 -> "Internal Server Error"
                   [] OTHER -> ""

\* resp.IsError()
IsError(resp) == resp.StatusCode > 299
\* resp.Status(): "404 Not Found"
Status(resp) == <<CodeText(resp.StatusCode), " ", StatusText(resp.StatusCode)>>
\* resp.String(): "[404 Not Found] <body>"
String(resp) ==
    <<"[", CodeText(resp.StatusCode), " ", StatusText(resp.StatusCode), "]", " ">>
        \o resp.Body

\* The JSON documents a cluster may serve, and the bodies that carry them.
Fixtures ==
    {EmptyObj, [found |-> "true"], [count |-> "\"x\""], [count |-> "1", took |-> "2"]}
        \cup {[count |-> NumTok(c)] : c \in 0..MaxCount}
BrokenBodies == {<<>>, <<"{", "count", ":">>, <<"<html>">>, <<"{", "count", "}">>}
Bodies == {Marshal(f) : f \in Fixtures} \cup BrokenBodies

NoResp == [StatusCode |-> 0, Body |-> <<>>]
NoOutcome == [err |-> NoErr, resp |-> NoResp]
\* What a call of the wrapped client returns: (resp, nil) or (nil, err).
ClientOutcomes ==
    {[err |-> ErrTransport, resp |-> NoResp]}
        \cup {[err |-> NoErr, resp |-> [StatusCode |-> s, Body |-> b]] :
                s \in StatusCodes, b \in Bodies}

(***************************************************************************)
(* Requests: the positional arguments of the client call and its           *)
(* functional options, in order.                                           *)
(***************************************************************************)
Minute == 60    \* time.Minute, in seconds

Option(set, val, dur) == [set |-> set, val |-> val, dur |-> dur]
WithContext(ctx) == Option("Context", <<ctx>>, 0)
WithIndex(indexes) == Option("Index", indexes, 0)
WithBody(text) == Option("Body", text, 0)
WithDocumentID(id) == Option("DocumentID", <<id>>, 0)
WithScrollID(id) == Option("ScrollID", <<id>>, 0)
WithScroll(d) == Option("Scroll", <<>>, d)

Request(api, index, id, body, o) ==
    [api |-> api, index |-> index, id |-> id, body |-> body, o |-> o]

\* The options among `o` that set `field`, in order.
Setters(o, field) == SelectSeq(o, LAMBDA x : x.set = field)
LastOf(s) == s[Len(s)]
\* The request the client sends: the call starts from its positional
\* arguments and applies the options one after the other, so the last option
\* that sets a field decides it.
Sent(req) ==
    LET last(field) == LastOf(Setters(req.o, field))
        set(field) == Setters(req.o, field) # <<>>
    IN [api |-> req.api,
        Context |-> IF set("Context") THEN last("Context").val ELSE <<>>,
        Index |-> IF set("Index") THEN last("Index").val ELSE req.index,
        DocumentID |-> IF set("DocumentID") THEN last("DocumentID").val[1] ELSE req.id,
        Body |-> IF set("Body") THEN last("Body").val ELSE req.body,
        ScrollID |-> IF set("ScrollID") THEN last("ScrollID").val[1] ELSE "",
        Scroll |-> IF set("Scroll") THEN last("Scroll").dur ELSE 0,
        Pretty |-> set("Pretty")]

(***************************************************************************)
(* The callers' inputs.                                                    *)
(***************************************************************************)
Ctxs == {"ctx1", "ctx2"}
Models == {"m1"}
Indexes == {"i1", "i2"}
IndexLists == {<<"i1">>, <<"i1", "i2">>}
Ids == {"id1", "id2"}
IdLists == UNION {[1..n -> Ids] : n \in 1..MaxIds}
ScrollIDs == {"s1", "s2"}
Queries == {<<"{", "}">>, <<"{", "q", ":", "d1", "}">>}
CallerOptions == {Option("Pretty", <<>>, 0), WithContext("ctx9")}
OptLists == UNION {[1..n -> CallerOptions] : n \in 0..MaxOpts}
\* A ScrollRequest has options of its own that a caller may pass as well.
ScrollCallerOptions == CallerOptions \cup {WithScroll(Minute), WithScrollID("s9")}
ScrollOptLists == UNION {[1..n -> ScrollCallerOptions] : n \in 0..MaxOpts}
\* obj of Create/Index/Update: a document, or a value encoding/json rejects.
Payloads == {[kind |-> "doc", fields |-> [title |-> "\"x\""]],
             [kind |-> "chan", fields |-> EmptyObj]}
ErrWriter == [kind |-> "writeReqBody", msg |-> <<"cannot write the bulk body">>]
\* writeReqBody of Bulk: what it writes to the buffer and what it returns.
Writers == {[writes |-> <<"{", "index", "}", "\n">>, err |-> NoErr],
            [writes |-> <<"{", "delete", "}", "\n">>, err |-> NoErr],
            [writes |-> <<"{">>, err |-> ErrWriter]}

(***************************************************************************)
(* encoding/json on the request side: Encoder.Encode writes the JSON text  *)
(* and a newline.                                                          *)
(***************************************************************************)
RECURSIVE JoinIds(_)
JoinIds(ids) ==
    IF Len(ids) = 0 THEN <<>>
    ELSE IF Len(ids) = 1 THEN <<ids[1]>>
    ELSE <<ids[1], ",">> \o JoinIds(Tail(ids))

\* json.NewEncoder(buf).Encode(&mgetRequestBody{IDs: ids})
EncodeMget(ids) ==
    [err |-> NoErr, buf |-> <<"{", "ids", ":", "[">> \o JoinIds(ids) \o <<"]", "}", "\n">>]

\* json.NewEncoder(body).Encode(obj)
Encode(obj) ==
    IF obj.kind = "doc" THEN [err |-> NoErr, buf |-> Marshal(obj.fields) \o <<"\n">>]
    ELSE [err |-> ErrUnsupportedType(obj.kind), buf |-> <<>>]

\* json.NewEncoder(body).Encode(&updateDoc{Doc: obj})
EncodeUpdateDoc(obj) ==
    IF obj.kind = "doc"
    THEN [err |-> NoErr,
          buf |-> <<"{", "doc", ":">> \o Marshal(obj.fields) \o <<"}", "\n">>]
    ELSE [err |-> ErrUnsupportedType(obj.kind), buf |-> <<>>]

(***************************************************************************)
(* The template engine (ntemplate.TextTemplate) and TemplateParam.         *)
(***************************************************************************)
TemplateHandles == {"T1", "T2"}
\* The root template of a handle.
Root(h) == IF h = "T1" THEN <<"{", "q", ":", "{{.}}", "}">>
           ELSE <<"{", "{{fail}}", "}">>
\* The named templates a handle defines.
Named(h) == IF h = "T1"
            THEN [byId |-> <<"{", "id", ":", "{{.}}", "}">>,
                  broken |-> <<"{", "{{fail}}", "}">>]
            ELSE [byId |-> <<"{", "}">>]
TemplateNames == {"", "byId", "broken"}
TemplateData == {"d1", "d2"}
TemplateParams ==
    [Template : TemplateHandles, Data : TemplateData, Name : TemplateNames]
NoTemplateParam == [Template |-> "", Data |-> "", Name |-> ""]

ErrExec == [kind |-> "template.ExecError", msg |-> <<"error calling fail">>]
ErrNoTemplate(name) ==
    [kind |-> "template", msg |-> <<"no template associated with ", name>>]

Render(text, data) ==
    IF \E i \in 1..Len(text) : text[i] = "{{fail}}"
    THEN [str |-> <<>>, err |-> ErrExec]
    ELSE [str |-> [i \in 1..Len(text) |-> IF text[i] = "{{.}}" THEN data ELSE text[i]],
          err |-> NoErr]

\* t.Template.Execute(data)
Execute(h, data) == Render(Root(h), data)
\* t.Template.ExecuteTemplate(name, data)
ExecuteTemplate(h, name, data) ==
    IF name \in DOMAIN Named(h) THEN Render(Named(h)[name], data)
    ELSE [str |-> <<>>, err |-> ErrNoTemplate(name)]

\* execute rendering the root template whatever the Name.
execute_AlwaysDefault(t) ==
    LET r == Execute(t.Template, t.Data)
    IN [str |-> r.str, err |-> r.err, ev |-> <<"Execute">>]

\* func (t *TemplateParam) execute() (string, error)
execute(t) ==
    IF t.Name = ""
    THEN LET r == Execute(t.Template, t.Data)
         IN [str |-> r.str, err |-> r.err, ev |-> <<"Execute">>]
    ELSE LET r == ExecuteTemplate(t.Template, t.Name, t.Data)
         IN [str |-> r.str, err |-> r.err, ev |-> <<"ExecuteTemplate">>]

(***************************************************************************)
(* The adapter.  A handler is given the caller's arguments and `out`, what *)
(* the wrapped client answers if asked; it yields the requests issued, the *)
(* steps taken, the results and the content of the caller's model.        *)
(***************************************************************************)
Ret(reqs, evs, val, err, d) ==
    [requests |-> reqs, events |-> evs, val |-> val, err |-> err,
     panicked |-> FALSE, dest |-> d]
Panic(reqs, evs, d) ==
    [requests |-> reqs, events |-> evs, val |-> NilVal, err |-> NoErr,
     panicked |-> TRUE, dest |-> d]
\* The steps `evs`, then the delegate's.
After(evs, r) == [r EXCEPT !.events = evs \o r.events]
Debugf(dbg) == IF dbg THEN <<"Debugf">> ELSE <<>>

\* newRespErr with the response text left out of the message.
newRespErr_StatusOnly(resp) ==
    [kind |-> "fmt.Errorf",
     msg |-> <<"esapi's response status indicates failure: ">> \o Status(resp)]

\* func newRespErr(resp *Response) error
newRespErr(resp) ==
    [kind |-> "fmt.Errorf",
     msg |-> <<"esapi's response status indicates failure: ">> \o Status(resp)
                \o <<", ">> \o String(resp)]

\* unmarshallResponse closing the body at once, not deferred.
unmarshallResponse_ClosesFirst(resp, d) ==
    IF IsError(resp)
    THEN [err |-> newRespErr(resp), dest |-> d,
          ev |-> <<"Close", "IsError", "newRespErr">>]
    ELSE LET r == JSONDecode(resp.Body)
         IN [err |-> r.err, dest |-> IF r.err = NoErr THEN r.obj ELSE d,
             ev |-> <<"Close", "IsError", "Decode">>]

\* unmarshallResponse decoding before it looks at the status.
unmarshallResponse_DecodesFirst(resp, d) ==
    LET r == JSONDecode(resp.Body)
    IN IF IsError(resp)
       THEN [err |-> newRespErr(resp), dest |-> IF r.err = NoErr THEN r.obj ELSE d,
             ev |-> <<"Decode", "IsError", "newRespErr", "Close">>]
       ELSE [err |-> r.err, dest |-> IF r.err = NoErr THEN r.obj ELSE d,
             ev |-> <<"Decode", "IsError", "Close">>]

\* unmarshallResponse closing the body on the decoding path only.
unmarshallResponse_LeakOnError(resp, d) ==
    IF IsError(resp)
    THEN [err |-> newRespErr(resp), dest |-> d, ev |-> <<"IsError", "newRespErr">>]
    ELSE LET r == JSONDecode(resp.Body)
         IN [err |-> r.err, dest |-> IF r.err = NoErr THEN r.obj ELSE d,
             ev |-> <<"IsError", "Decode", "Close">>]

\* unmarshallResponse decoding into a copy, the caller's value untouched.
unmarshallResponse_DecodesCopy(resp, d) ==
    IF IsError(resp)
    THEN [err |-> newRespErr(resp), dest |-> d,
          ev |-> <<"IsError", "newRespErr", "Close">>]
    ELSE LET r == JSONDecode(resp.Body)
         IN [err |-> r.err, dest |-> d, ev |-> <<"IsError", "Decode", "Close">>]

\* func unmarshallResponse(resp *Response, dest interface{}) error
unmarshallResponse(resp, d) ==
    IF IsError(resp)
    THEN [err |-> newRespErr(resp), dest |-> d,
          ev |-> <<"IsError", "newRespErr", "Close">>]
    ELSE LET r == JSONDecode(resp.Body)
         IN [err |-> r.err, dest |-> IF r.err = NoErr THEN r.obj ELSE d,
             ev |-> <<"IsError", "Decode", "Close">>]

\* func (e *esOper) ESClient() *Client
ESClient(c) == Ret(<<>>, <<>>, [kind |-> "client", ref |-> c, n |-> 0], NoErr, EmptyObj)

\* func (e *esOper) Get
Get(ctx, model, index, id, opts, out) ==
    LET o == <<WithContext(ctx)>> \o opts
        req == Request("Get", <<index>>, id, <<>>, o)
    IN IF out.err # NoErr
       THEN Ret(<<req>>, <<"request">>, NilVal, out.err, EmptyObj)
       ELSE LET u == unmarshallResponse(out.resp, EmptyObj)
            IN IF u.err # NoErr
               THEN Ret(<<req>>, <<"request">> \o u.ev, NilVal, u.err, u.dest)
               ELSE Ret(<<req>>, <<"request">> \o u.ev, ModelVal(model), NoErr, u.dest)

\* func (e *esOper) MultiGet
MultiGet(ctx, model, index, ids, opts, out) ==
    LET o == <<WithContext(ctx), WithIndex(<<index>>)>> \o opts
        enc == EncodeMget(ids)
        req == Request("Mget", <<>>, "", enc.buf, o)
    IN IF enc.err # NoErr
       THEN Ret(<<>>, <<"Encode">>, NilVal, enc.err, EmptyObj)
       ELSE IF out.err # NoErr
       THEN Ret(<<req>>, <<"Encode", "request">>, NilVal, out.err, EmptyObj)
       ELSE LET u == unmarshallResponse(out.resp, EmptyObj)
            IN IF u.err # NoErr
               THEN Ret(<<req>>, <<"Encode", "request">> \o u.ev, NilVal, u.err, u.dest)
               ELSE Ret(<<req>>, <<"Encode", "request">> \o u.ev, ModelVal(model),
                        NoErr, u.dest)

\* Bulk sending what is in the buffer whatever the callback returned.
Bulk_SendsAnyway(ctx, index, writeReqBody, opts, out) ==
    LET o == <<WithIndex(<<index>>), WithContext(ctx)>> \o opts
        req == Request("Bulk", <<>>, "", writeReqBody.writes, o)
    IN IF out.err # NoErr
       THEN Ret(<<req>>, <<"writeReqBody", "request">>, NilVal, out.err, EmptyObj)
       ELSE IF IsError(out.resp)
       THEN Ret(<<req>>, <<"writeReqBody", "request", "IsError", "newRespErr", "Close">>,
                NilVal, newRespErr(out.resp), EmptyObj)
       ELSE Ret(<<req>>, <<"writeReqBody", "request", "IsError", "Close">>,
                NilVal, NoErr, EmptyObj)

\* func (e *esOper) Bulk
Bulk(ctx, index, writeReqBody, opts, out) ==
    LET o == <<WithIndex(<<index>>), WithContext(ctx)>> \o opts
        req == Request("Bulk", <<>>, "", writeReqBody.writes, o)
    IN IF writeReqBody.err # NoErr
       THEN Ret(<<>>, <<"writeReqBody">>, NilVal, writeReqBody.err, EmptyObj)
       ELSE IF out.err # NoErr
       THEN Ret(<<req>>, <<"writeReqBody", "request">>, NilVal, out.err, EmptyObj)
       ELSE IF IsError(out.resp)
       THEN Ret(<<req>>, <<"writeReqBody", "request", "IsError", "newRespErr", "Close">>,
                NilVal, newRespErr(out.resp), EmptyObj)
       ELSE Ret(<<req>>, <<"writeReqBody", "request", "IsError", "Close">>,
                NilVal, NoErr, EmptyObj)

\* func (e *esOper) Create
Create(ctx, index, id, obj, opts, out) ==
    LET body == Encode(obj)
        o == <<WithContext(ctx)>> \o opts
        req == Request("Create", <<index>>, id, body.buf, o)
    IN IF body.err # NoErr
       THEN Ret(<<>>, <<"Encode">>, NilVal, body.err, EmptyObj)
       ELSE IF out.err # NoErr
       THEN Ret(<<req>>, <<"Encode", "request">>, NilVal, out.err, EmptyObj)
       ELSE IF IsError(out.resp)
       THEN Ret(<<req>>, <<"Encode", "request", "IsError", "newRespErr", "Close">>,
                NilVal, newRespErr(out.resp), EmptyObj)
       ELSE Ret(<<req>>, <<"Encode", "request", "IsError", "Close">>,
                NilVal, NoErr, EmptyObj)

\* func (e *esOper) Index
Index(ctx, index, id, obj, opts, out) ==
    LET body == Encode(obj)
        o == <<WithContext(ctx), WithDocumentID(id)>> \o opts
        req == Request("Index", <<index>>, "", body.buf, o)
    IN IF body.err # NoErr
       THEN Ret(<<>>, <<"Encode">>, NilVal, body.err, EmptyObj)
       ELSE IF out.err # NoErr
       THEN Ret(<<req>>, <<"Encode", "request">>, NilVal, out.err, EmptyObj)
       ELSE IF IsError(out.resp)
       THEN Ret(<<req>>, <<"Encode", "request", "IsError", "newRespErr", "Close">>,
                NilVal, newRespErr(out.resp), EmptyObj)
       ELSE Ret(<<req>>, <<"Encode", "request", "IsError", "Close">>,
                NilVal, NoErr, EmptyObj)

\* Update sending the document bare, not as the value of "doc".
Update_NoDocWrapper(ctx, index, id, obj, opts, out) ==
    LET body == Encode(obj)
        o == <<WithContext(ctx)>> \o opts
        req == Request("Update", <<index>>, id, body.buf, o)
    IN IF body.err # NoErr
       THEN Ret(<<>>, <<"Encode">>, NilVal, body.err, EmptyObj)
       ELSE IF out.err # NoErr
       THEN Ret(<<req>>, <<"Encode", "request">>, NilVal, out.err, EmptyObj)
       ELSE IF IsError(out.resp)
       THEN Ret(<<req>>, <<"Encode", "request", "IsError", "newRespErr", "Close">>,
                NilVal, newRespErr(out.resp), EmptyObj)
       ELSE Ret(<<req>>, <<"Encode", "request", "IsError", "Close">>,
                NilVal, NoErr, EmptyObj)

\* func (e *esOper) Update
Update(ctx, index, id, obj, opts, out) ==
    LET body == EncodeUpdateDoc(obj)
        o == <<WithContext(ctx)>> \o opts
        req == Request("Update", <<index>>, id, body.buf, o)
    IN IF body.err # NoErr
       THEN Ret(<<>>, <<"Encode">>, NilVal, body.err, EmptyObj)
       ELSE IF out.err # NoErr
       THEN Ret(<<req>>, <<"Encode", "request">>, NilVal, out.err, EmptyObj)
       ELSE IF IsError(out.resp)
       THEN Ret(<<req>>, <<"Encode", "request", "IsError", "newRespErr", "Close">>,
                NilVal, newRespErr(out.resp), EmptyObj)
       ELSE Ret(<<req>>, <<"Encode", "request", "IsError", "Close">>,
                NilVal, NoErr, EmptyObj)

\* Delete passing its first two arguments on in the order it takes them.
Delete_Swapped(ctx, id, index, opts, out) ==
    LET o == <<WithContext(ctx)>> \o opts
        req == Request("Delete", <<id>>, index, <<>>, o)
    IN IF out.err # NoErr
       THEN Ret(<<req>>, <<"request">>, NilVal, out.err, EmptyObj)
       ELSE IF IsError(out.resp)
       THEN Ret(<<req>>, <<"request", "IsError", "newRespErr", "Close">>,
                NilVal, newRespErr(out.resp), EmptyObj)
       ELSE Ret(<<req>>, <<"request", "IsError", "Close">>, NilVal, NoErr, EmptyObj)

\* Delete wrapping the client's error in one of its own.
Delete_WrapsError(ctx, id, index, opts, out) ==
    LET o == <<WithContext(ctx)>> \o opts
        req == Request("Delete", <<index>>, id, <<>>, o)
    IN IF out.err # NoErr
       THEN Ret(<<req>>, <<"request">>, NilVal,
                [kind |-> "fmt.Errorf", msg |-> <<"delete failed: ">> \o out.err.msg],
                EmptyObj)
       ELSE IF IsError(out.resp)
       THEN Ret(<<req>>, <<"request", "IsError", "newRespErr", "Close">>,
                NilVal, newRespErr(out.resp), EmptyObj)
       ELSE Ret(<<req>>, <<"request", "IsError", "Close">>, NilVal, NoErr, EmptyObj)

\* func (e *esOper) Delete(ctx, id, index, opts...)
Delete(ctx, id, index, opts, out) ==
    LET o == <<WithContext(ctx)>> \o opts
        req == Request("Delete", <<index>>, id, <<>>, o)
    IN IF out.err # NoErr
       THEN Ret(<<req>>, <<"request">>, NilVal, out.err, EmptyObj)
       ELSE IF IsError(out.resp)
       THEN Ret(<<req>>, <<"request", "IsError", "newRespErr", "Close">>,
                NilVal, newRespErr(out.resp), EmptyObj)
       ELSE Ret(<<req>>, <<"request", "IsError", "Close">>, NilVal, NoErr, EmptyObj)

\* DeleteByQuery asking again after a transport error.
DeleteByQuery_Retries(ctx, query, indexes, opts, out, dbg) ==
    LET o == <<WithContext(ctx)>> \o opts
        req == Request("DeleteByQuery", indexes, "", query, o)
        pre == Debugf(dbg) \o <<"request">>
    IN IF out.err # NoErr
       THEN Ret(<<req, req>>, pre \o <<"request">>, NilVal, out.err, EmptyObj)
       ELSE IF IsError(out.resp)
       THEN Ret(<<req>>, pre \o <<"IsError", "newRespErr", "Close">>,
                NilVal, newRespErr(out.resp), EmptyObj)
       ELSE Ret(<<req>>, pre \o <<"IsError", "Close">>, NilVal, NoErr, EmptyObj)

\* func (e *esOper) DeleteByQuery
DeleteByQuery(ctx, query, indexes, opts, out, dbg) ==
    LET o == <<WithContext(ctx)>> \o opts
        req == Request("DeleteByQuery", indexes, "", query, o)
        pre == Debugf(dbg) \o <<"request">>
    IN IF out.err # NoErr
       THEN Ret(<<req>>, pre, NilVal, out.err, EmptyObj)
       ELSE IF IsError(out.resp)
       THEN Ret(<<req>>, pre \o <<"IsError", "newRespErr", "Close">>,
                NilVal, newRespErr(out.resp), EmptyObj)
       ELSE Ret(<<req>>, pre \o <<"IsError", "Close">>, NilVal, NoErr, EmptyObj)

\* DeleteByQueryTemplate going on with whatever was rendered.
DeleteByQueryTemplate_IgnoresError(ctx, t, indexes, opts, out, dbg) ==
    LET q == execute(t)
    IN After(q.ev, DeleteByQuery(ctx, q.str, indexes, opts, out, dbg))

\* func (e *esOper) DeleteByQueryTemplate
DeleteByQueryTemplate(ctx, t, indexes, opts, out, dbg) ==
    LET q == execute(t)
    IN IF q.err # NoErr
       THEN Ret(<<>>, q.ev, NilVal, q.err, EmptyObj)
       ELSE After(q.ev, DeleteByQuery(ctx, q.str, indexes, opts, out, dbg))

\* func (e *esOper) UpdateByQuery
UpdateByQuery(ctx, query, indexes, opts, out, dbg) ==
    LET o == <<WithBody(query), WithContext(ctx)>> \o opts
        req == Request("UpdateByQuery", indexes, "", <<>>, o)
        pre == Debugf(dbg) \o <<"request">>
    IN IF out.err # NoErr
       THEN Ret(<<req>>, pre, NilVal, out.err, EmptyObj)
       ELSE IF IsError(out.resp)
       THEN Ret(<<req>>, pre \o <<"IsError", "newRespErr", "Close">>,
                NilVal, newRespErr(out.resp), EmptyObj)
       ELSE Ret(<<req>>, pre \o <<"IsError", "Close">>, NilVal, NoErr, EmptyObj)

\* UpdateByQueryTemplate not passing the caller's options on.
UpdateByQueryTemplate_DropsOptions(ctx, t, indexes, opts, out, dbg) ==
    LET q == execute(t)
    IN IF q.err # NoErr
       THEN Ret(<<>>, q.ev, NilVal, q.err, EmptyObj)
       ELSE After(q.ev, UpdateByQuery(ctx, q.str, indexes, <<>>, out, dbg))

\* func (e *esOper) UpdateByQueryTemplate
UpdateByQueryTemplate(ctx, t, indexes, opts, out, dbg) ==
    LET q == execute(t)
    IN IF q.err # NoErr
       THEN Ret(<<>>, q.ev, NilVal, q.err, EmptyObj)
       ELSE After(q.ev, UpdateByQuery(ctx, q.str, indexes, opts, out, dbg))

\* Count decoding the body without looking at the status first.
Count_SkipsStatus(ctx, query, indexes, opts, out, dbg) ==
    LET o == <<WithContext(ctx), WithIndex(indexes), WithBody(query)>> \o opts
        req == Request("Count", <<>>, "", <<>>, o)
        pre == Debugf(dbg) \o <<"request">>
    IN IF out.err # NoErr
       THEN Ret(<<req>>, pre, Int64Val(0), out.err, EmptyObj)
       ELSE LET m == JSONDecode(out.resp.Body)
            IN IF m.err # NoErr
               THEN Ret(<<req>>, pre \o <<"Decode", "Close">>,
                        Int64Val(0), m.err, EmptyObj)
               ELSE IF "count" \in DOMAIN m.obj /\ IsNumTok(m.obj["count"])
               THEN Ret(<<req>>, pre \o <<"Decode", "Close">>,
                        Int64Val(NumOf(m.obj["count"])), NoErr, EmptyObj)
               ELSE Panic(<<req>>, pre \o <<"Decode", "panic", "Close">>, EmptyObj)

\* func (e *esOper) Count
Count(ctx, query, indexes, opts, out, dbg) ==
    LET o == <<WithContext(ctx), WithIndex(indexes), WithBody(query)>> \o opts
        req == Request("Count", <<>>, "", <<>>, o)
        pre == Debugf(dbg) \o <<"request">>
    IN IF out.err # NoErr
       THEN Ret(<<req>>, pre, Int64Val(0), out.err, EmptyObj)
       ELSE IF IsError(out.resp)
       THEN Ret(<<req>>, pre \o <<"IsError", "newRespErr", "Close">>,
                Int64Val(0), newRespErr(out.resp), EmptyObj)
       ELSE LET m == JSONDecode(out.resp.Body)
            IN IF m.err # NoErr
               THEN Ret(<<req>>, pre \o <<"IsError", "Decode", "Close">>,
                        Int64Val(0), m.err, EmptyObj)
               \* int64(m["count"].(float64))
               ELSE IF "count" \in DOMAIN m.obj /\ IsNumTok(m.obj["count"])
               THEN Ret(<<req>>, pre \o <<"IsError", "Decode", "Close">>,
                        Int64Val(NumOf(m.obj["count"])), NoErr, EmptyObj)
               ELSE Panic(<<req>>, pre \o <<"IsError", "Decode", "panic", "Close">>,
                          EmptyObj)

\* func (e *esOper) CountTemplate
CountTemplate(ctx, t, indexes, opts, out, dbg) ==
    LET q == execute(t)
    IN IF q.err # NoErr
       THEN Ret(<<>>, q.ev, Int64Val(0), q.err, EmptyObj)
       ELSE After(q.ev, Count(ctx, q.str, indexes, opts, out, dbg))

\* Search placing the caller's options before its own.
Search_CallerFirst(ctx, model, query, indexes, opts, out, dbg) ==
    LET o == opts \o <<WithContext(ctx), WithIndex(indexes), WithBody(query)>>
        req == Request("Search", <<>>, "", <<>>, o)
        pre == Debugf(dbg) \o <<"request">>
    IN IF out.err # NoErr
       THEN Ret(<<req>>, pre, NilVal, out.err, EmptyObj)
       ELSE LET u == unmarshallResponse(out.resp, EmptyObj)
            IN IF u.err # NoErr
               THEN Ret(<<req>>, pre \o u.ev, NilVal, u.err, u.dest)
               ELSE Ret(<<req>>, pre \o u.ev, ModelVal(model), NoErr, u.dest)

\* func (e *esOper) Search
Search(ctx, model, query, indexes, opts, out, dbg) ==
    LET o == <<WithContext(ctx), WithIndex(indexes), WithBody(query)>> \o opts
        req == Request("Search", <<>>, "", <<>>, o)
        pre == Debugf(dbg) \o <<"request">>
    IN IF out.err # NoErr
       THEN Ret(<<req>>, pre, NilVal, out.err, EmptyObj)
       ELSE LET u == unmarshallResponse(out.resp, EmptyObj)
            IN IF u.err # NoErr
               THEN Ret(<<req>>, pre \o u.ev, NilVal, u.err, u.dest)
               ELSE Ret(<<req>>, pre \o u.ev, ModelVal(model), NoErr, u.dest)

\* func (e *esOper) SearchTemplate
SearchTemplate(ctx, model, t, indexes, opts, out, dbg) ==
    LET q == execute(t)
    IN IF q.err # NoErr
       THEN Ret(<<>>, q.ev, IntVal(0), q.err, EmptyObj)
       ELSE After(q.ev, Search(ctx, model, q.str, indexes, opts, out, dbg))

\* SearchByScrollID keeping the scroll alive for one minute.
SearchByScrollID_OneMinute(ctx, model, scrollID, opts, out) ==
    LET o == <<WithContext(ctx), WithScrollID(scrollID), WithScroll(Minute)>> \o opts
        req == Request("Scroll", <<>>, "", <<>>, o)
    IN IF out.err # NoErr
       THEN Ret(<<req>>, <<"request">>, NilVal, out.err, EmptyObj)
       ELSE LET u == unmarshallResponse(out.resp, EmptyObj)
            IN IF u.err # NoErr
               THEN Ret(<<req>>, <<"request">> \o u.ev, NilVal, u.err, u.dest)
               ELSE Ret(<<req>>, <<"request">> \o u.ev, ModelVal(model), NoErr, u.dest)

\* func (e *esOper) SearchByScrollID
SearchByScrollID(ctx, model, scrollID, opts, out) ==
    LET o == <<WithContext(ctx), WithScrollID(scrollID), WithScroll(5 * Minute)>> \o opts
        req == Request("Scroll", <<>>, "", <<>>, o)
    IN IF out.err # NoErr
       THEN Ret(<<req>>, <<"request">>, NilVal, out.err, EmptyObj)
       ELSE LET u == unmarshallResponse(out.resp, EmptyObj)
            IN IF u.err # NoErr
               THEN Ret(<<req>>, <<"request">> \o u.ev, NilVal, u.err, u.dest)
               ELSE Ret(<<req>>, <<"request">> \o u.ev, ModelVal(model), NoErr, u.dest)

(***************************************************************************)
(* The calls.                                                              *)
(***************************************************************************)
NoArgs ==
    [ctx |-> "", model |-> "", index |-> "", indexes |-> <<>>, id |-> "", ids |-> <<>>,
     query |-> <<>>, t |-> NoTemplateParam, obj |-> [kind |-> "", fields |-> EmptyObj],
     writeReqBody |-> [writes |-> <<>>, err |-> NoErr], scrollID |-> "", opts |-> <<>>]

\* The call `name` with arguments `a` ran as `r`, the client answering `out`.
Returns(name, a, r, out) ==
    /\ pc' = "done"
    /\ method' = name
    /\ args' = a
    /\ outcome' = IF r.requests = <<>> THEN NoOutcome ELSE out
    /\ requests' = r.requests
    /\ events' = r.events
    /\ retVal' = r.val
    /\ retErr' = r.err
    /\ panicked' = r.panicked
    /\ dest' = r.dest
    /\ UNCHANGED <<client, debugEnabled, calls, closedBy>>

CallESClient ==
    /\ pc = "idle"
    /\ Returns("ESClient", NoArgs, ESClient(client), NoOutcome)

CallGet ==
    /\ pc = "idle"
    /\ \E ctx \in Ctxs, model \in Models, index \in Indexes, id \in Ids,
       opts \in OptLists, out \in ClientOutcomes :
        Returns("Get",
                [NoArgs EXCEPT !.ctx = ctx, !.model = model, !.index = index,
                               !.id = id, !.opts = opts],
                Get(ctx, model, index, id, opts, out), out)

CallMultiGet ==
    /\ pc = "idle"
    /\ \E ctx \in Ctxs, model \in Models, index \in Indexes, ids \in IdLists,
       opts \in OptLists, out \in ClientOutcomes :
        Returns("MultiGet",
                [NoArgs EXCEPT !.ctx = ctx, !.model = model, !.index = index,
                               !.ids = ids, !.opts = opts],
                MultiGet(ctx, model, index, ids, opts, out), out)

CallBulk ==
    /\ pc = "idle"
    /\ \E ctx \in Ctxs, index \in Indexes, w \in Writers,
       opts \in OptLists, out \in ClientOutcomes :
        Returns("Bulk",
                [NoArgs EXCEPT !.ctx = ctx, !.index = index, !.writeReqBody = w,
                               !.opts = opts],
                Bulk(ctx, index, w, opts, out), out)

CallCreate ==
    /\ pc = "idle"
    /\ \E ctx \in Ctxs, index \in Indexes, id \in Ids, obj \in Payloads,
       opts \in OptLists, out \in ClientOutcomes :
        Returns("Create",
                [NoArgs EXCEPT !.ctx = ctx, !.index = index, !.id = id, !.obj = obj,
                               !.opts = opts],
                Create(ctx, index, id, obj, opts, out), out)

CallIndex ==
    /\ pc = "idle"
    /\ \E ctx \in Ctxs, index \in Indexes, id \in Ids, obj \in Payloads,
       opts \in OptLists, out \in ClientOutcomes :
        Returns("Index",
                [NoArgs EXCEPT !.ctx = ctx, !.index = index, !.id = id, !.obj = obj,
                               !.opts = opts],
                Index(ctx, index, id, obj, opts, out), out)

CallUpdate ==
    /\ pc = "idle"
    /\ \E ctx \in Ctxs, index \in Indexes, id \in Ids, obj \in Payloads,
       opts \in OptLists, out \in ClientOutcomes :
        Returns("Update",
                [NoArgs EXCEPT !.ctx = ctx, !.index = index, !.id = id, !.obj = obj,
                               !.opts = opts],
                Update(ctx, index, id, obj, opts, out), out)

CallDelete ==
    /\ pc = "idle"
    /\ \E ctx \in Ctxs, id \in Ids, index \in Indexes,
       opts \in OptLists, out \in ClientOutcomes :
        Returns("Delete",
                [NoArgs EXCEPT !.ctx = ctx, !.id = id, !.index = index, !.opts = opts],
                Delete(ctx, id, index, opts, out), out)

CallDeleteByQuery ==
    /\ pc = "idle"
    /\ \E ctx \in Ctxs, query \in Queries, indexes \in IndexLists,
       opts \in OptLists, out \in ClientOutcomes :
        Returns("DeleteByQuery",
                [NoArgs EXCEPT !.ctx = ctx, !.query = query, !.indexes = indexes,
                               !.opts = opts],
                DeleteByQuery(ctx, query, indexes, opts, out, debugEnabled), out)

CallDeleteByQueryTemplate ==
    /\ pc = "idle"
    /\ \E ctx \in Ctxs, t \in TemplateParams, indexes \in IndexLists,
       opts \in OptLists, out \in ClientOutcomes :
        Returns("DeleteByQueryTemplate",
                [NoArgs EXCEPT !.ctx = ctx, !.t = t, !.indexes = indexes, !.opts = opts],
                DeleteByQueryTemplate(ctx, t, indexes, opts, out, debugEnabled), out)

CallUpdateByQuery ==
    /\ pc = "idle"
    /\ \E ctx \in Ctxs, query \in Queries, indexes \in IndexLists,
       opts \in OptLists, out \in ClientOutcomes :
        Returns("UpdateByQuery",
                [NoArgs EXCEPT !.ctx = ctx, !.query = query, !.indexes = indexes,
                               !.opts = opts],
                UpdateByQuery(ctx, query, indexes, opts, out, debugEnabled), out)

CallUpdateByQueryTemplate ==
    /\ pc = "idle"
    /\ \E ctx \in Ctxs, t \in TemplateParams, indexes \in IndexLists,
       opts \in OptLists, out \in ClientOutcomes :
        Returns("UpdateByQueryTemplate",
                [NoArgs EXCEPT !.ctx = ctx, !.t = t, !.indexes = indexes, !.opts = opts],
                UpdateByQueryTemplate(ctx, t, indexes, opts, out, debugEnabled), out)

CallCount ==
    /\ pc = "idle"
    /\ \E ctx \in Ctxs, query \in Queries, indexes \in IndexLists,
       opts \in OptLists, out \in ClientOutcomes :
        Returns("Count",
                [NoArgs EXCEPT !.ctx = ctx, !.query = query, !.indexes = indexes,
                               !.opts = opts],
                Count(ctx, query, indexes, opts, out, debugEnabled), out)

CallCountTemplate ==
    /\ pc = "idle"
    /\ \E ctx \in Ctxs, t \in TemplateParams, indexes \in IndexLists,
       opts \in OptLists, out \in ClientOutcomes :
        Returns("CountTemplate",
                [NoArgs EXCEPT !.ctx = ctx, !.t = t, !.indexes = indexes, !.opts = opts],
                CountTemplate(ctx, t, indexes, opts, out, debugEnabled), out)

CallSearch ==
    /\ pc = "idle"
    /\ \E ctx \in Ctxs, model \in Models, query \in Queries, indexes \in IndexLists,
       opts \in OptLists, out \in ClientOutcomes :
        Returns("Search",
                [NoArgs EXCEPT !.ctx = ctx, !.model = model, !.query = query,
                               !.indexes = indexes, !.opts = opts],
                Search(ctx, model, query, indexes, opts, out, debugEnabled), out)

CallSearchTemplate ==
    /\ pc = "idle"
    /\ \E ctx \in Ctxs, model \in Models, t \in TemplateParams, indexes \in IndexLists,
       opts \in OptLists, out \in ClientOutcomes :
        Returns("SearchTemplate",
                [NoArgs EXCEPT !.ctx = ctx, !.model = model, !.t = t,
                               !.indexes = indexes, !.opts = opts],
                SearchTemplate(ctx, model, t, indexes, opts, out, debugEnabled), out)

CallSearchByScrollID ==
    /\ pc = "idle"
    /\ \E ctx \in Ctxs, model \in Models, scrollID \in ScrollIDs,
       opts \in ScrollOptLists, out \in ClientOutcomes :
        Returns("SearchByScrollID",
                [NoArgs EXCEPT !.ctx = ctx, !.model = model, !.scrollID = scrollID,
                               !.opts = opts],
                SearchByScrollID(ctx, model, scrollID, opts, out), out)

(***************************************************************************)
(* Concurrent calls on one adapter.  A goroutine's call runs up to the     *)
(* call of the wrapped client, waits for the client to answer, and runs    *)
(* to its return; the goroutines interleave at these points.  All a call   *)
(* holds is in its own locals (calls[p]); the adapter's only field is the  *)
(* client reference.                                                       *)
(***************************************************************************)
Procs == {"g1", "g2"}

\* A method of the ESOper interface, by name.
Handle(m, a, out, dbg) ==
    CASE m = "ESClient" -> ESClient(client)
      [] m = "Get" -> Get(a.ctx, a.model, a.index, a.id, a.opts, out)
      [] m = "MultiGet" -> MultiGet(a.ctx, a.model, a.index, a.ids, a.opts, out)
      [] m = "Bulk" -> Bulk(a.ctx, a.index, a.writeReqBody, a.opts, out)
      [] m = "Create" -> Create(a.ctx, a.index, a.id, a.obj, a.opts, out)
      [] m = "Index" -> Index(a.ctx, a.index, a.id, a.obj, a.opts, out)
      [] m = "Update" -> Update(a.ctx, a.index, a.id, a.obj, a.opts, out)
      [] m = "Delete" -> Delete(a.ctx, a.id, a.index, a.opts, out)
      [] m = "DeleteByQuery" -> DeleteByQuery(a.ctx, a.query, a.indexes, a.opts, out, dbg)
      [] m = "DeleteByQueryTemplate" ->
            DeleteByQueryTemplate(a.ctx, a.t, a.indexes, a.opts, out, dbg)
      [] m = "UpdateByQuery" -> UpdateByQuery(a.ctx, a.query, a.indexes, a.opts, out, dbg)
      [] m = "UpdateByQueryTemplate" ->
            UpdateByQueryTemplate(a.ctx, a.t, a.indexes, a.opts, out, dbg)
      [] m = "Count" -> Count(a.ctx, a.query, a.indexes, a.opts, out, dbg)
      [] m = "CountTemplate" -> CountTemplate(a.ctx, a.t, a.indexes, a.opts, out, dbg)
      [] m = "Search" -> Search(a.ctx, a.model, a.query, a.indexes, a.opts, out, dbg)
      [] m = "SearchTemplate" ->
            SearchTemplate(a.ctx, a.model, a.t, a.indexes, a.opts, out, dbg)
      [] m = "SearchByScrollID" ->
            SearchByScrollID(a.ctx, a.model, a.scrollID, a.opts, out)

NoResult == Ret(<<>>, <<>>, NilVal, NoErr, EmptyObj)
\* An answer of the client, marked with the call it was given to.
AnswerTo(out, who) == [err |-> out.err, resp |-> out.resp, to |-> who]
IdleCall ==
    [pc |-> "idle", method |-> "none", args |-> NoArgs,
     out |-> AnswerTo(NoOutcome, "none"), res |-> NoResult]

\* The calls the goroutines make, and what the client may answer them.
ConcCalls ==
    {[method |-> "ESClient", args |-> NoArgs],
     [method |-> "Get",
      args |-> [NoArgs EXCEPT !.ctx = "ctx1", !.model = "m1", !.index = "i1",
                              !.id = "id1"]],
     [method |-> "Delete",
      args |-> [NoArgs EXCEPT !.ctx = "ctx2", !.id = "id2", !.index = "i2"]],
     [method |-> "Count",
      args |-> [NoArgs EXCEPT !.ctx = "ctx1", !.query = <<"{", "}">>,
                              !.indexes = <<"i1">>]],
     [method |-> "Update",
      args |-> [NoArgs EXCEPT !.ctx = "ctx1", !.index = "i1", !.id = "id1",
                              !.obj = [kind |-> "chan", fields |-> EmptyObj]]],
     [method |-> "SearchTemplate",
      args |-> [NoArgs EXCEPT !.ctx = "ctx2", !.model = "m1", !.indexes = <<"i1", "i2">>,
                              !.t = [Template |-> "T1", Data |-> "d1", Name |-> "byId"]]]}
ConcOutcomes ==
    {[err |-> ErrTransport, resp |-> NoResp],
     [err |-> NoErr, resp |-> [StatusCode |-> 200, Body |-> <<"{", "count", ":", "1", "}">>]],
     [err |-> NoErr, resp |-> [StatusCode |-> 200, Body |-> <<"{", "found", ":", "true", "}">>]],
     [err |-> NoErr, resp |-> [StatusCode |-> 404, Body |-> <<"{", "found", ":", "true", "}">>]],
     [err |-> NoErr, resp |-> [StatusCode |-> 200, Body |-> <<"<html>">>]]}

\* A call taking up whichever answer is at hand, as if the response were
\* kept in a field of the adapter.
ownResp_Shared(cs, p) == cs[CHOOSE q \in Procs : cs[q].pc = "answered"].out

\* resp, err := api.X(...): the answer is held in the call's own locals.
ownResp(cs, p) == cs[p].out

\* The call starts and runs up to the call of the wrapped client; a call
\* that fails before it (rendering, encoding) returns at once.
Begin(p) ==
    /\ calls[p].pc = "idle"
    /\ \E c \in ConcCalls :
         LET r == Handle(c.method, c.args, NoOutcome, debugEnabled)
         IN calls' = [calls EXCEPT ![p] =
                        [@ EXCEPT !.pc = IF r.requests = <<>> THEN "done" ELSE "asked",
                                  !.method = c.method, !.args = c.args,
                                  !.res = IF r.requests = <<>> THEN r ELSE NoResult]]
    /\ UNCHANGED <<client, debugEnabled, pc, method, args, outcome, requests, events,
                   retVal, retErr, panicked, dest, closedBy>>

\* The wrapped client answers the call.
Answer(p) ==
    /\ calls[p].pc = "asked"
    /\ \E out \in ConcOutcomes :
         calls' = [calls EXCEPT ![p] = [@ EXCEPT !.pc = "answered",
                                                 !.out = AnswerTo(out, p)]]
    /\ UNCHANGED <<client, debugEnabled, pc, method, args, outcome, requests, events,
                   retVal, retErr, panicked, dest, closedBy>>

\* The call runs from the client's answer to its return, closing the body
\* of the response it holds.
Finish(p) ==
    /\ calls[p].pc = "answered"
    /\ LET got == ownResp(calls, p)
           r == Handle(calls[p].method, calls[p].args, got, debugEnabled)
       IN /\ calls' = [calls EXCEPT ![p] = [@ EXCEPT !.pc = "done", !.res = r]]
          /\ closedBy' = IF \E i \in 1..Len(r.events) : r.events[i] = "Close"
                         THEN [closedBy EXCEPT ![got.to] = Append(@, p)]
                         ELSE closedBy
    /\ UNCHANGED <<client, debugEnabled, pc, method, args, outcome, requests, events,
                   retVal, retErr, panicked, dest>>

Init ==
    /\ client = "c1"
    /\ debugEnabled \in BOOLEAN
    /\ pc = "idle"
    /\ method = "none"
    /\ args = NoArgs
    /\ outcome = NoOutcome
    /\ requests = <<>>
    /\ events = <<>>
    /\ retVal = NilVal
    /\ retErr = NoErr
    /\ panicked = FALSE
    /\ dest = EmptyObj
    /\ calls = [p \in Procs |-> IdleCall]
    /\ closedBy = [p \in Procs |-> <<>>]

Next ==
    \/ CallESClient
    \/ CallGet
    \/ CallMultiGet
    \/ CallBulk
    \/ CallCreate
    \/ CallIndex
    \/ CallUpdate
    \/ CallDelete
    \/ CallDeleteByQuery
    \/ CallDeleteByQueryTemplate
    \/ CallUpdateByQuery
    \/ CallUpdateByQueryTemplate
    \/ CallCount
    \/ CallCountTemplate
    \/ CallSearch
    \/ CallSearchTemplate
    \/ CallSearchByScrollID

Spec == Init /\ [][Next]_vars

NextConc == \E p \in Procs : Begin(p) \/ Answer(p) \/ Finish(p)

SpecConc == Init /\ [][NextConc]_vars

(***************************************************************************)
(* What the claims speak of.                                               *)
(***************************************************************************)
CountOf(e, evs) == Cardinality({i \in 1..Len(evs) : evs[i] = e})
Contains(text, sub) ==
    \E i \in 1..(Len(text) - Len(sub) + 1) : SubSeq(text, i, i + Len(sub) - 1) = sub

Returned == pc = "done"
\* The wrapped client was asked and returned a response (no transport error).
GotResponse == requests # <<>> /\ outcome.err = NoErr
ErrorStatus == GotResponse /\ IsError(outcome.resp)
OKStatus == GotResponse /\ ~IsError(outcome.resp)
\* The document the response body carries, if it is the JSON of one.
ServesFixture(f) == outcome.resp.Body = Marshal(f)

ModelMethods == {"Get", "MultiGet", "Search", "SearchTemplate", "SearchByScrollID"}
TemplateMethods ==
    {"DeleteByQueryTemplate", "UpdateByQueryTemplate", "CountTemplate", "SearchTemplate"}
DecodingMethods == ModelMethods \cup {"Count", "CountTemplate"}
AdapterMethods ==
    DecodingMethods \cup TemplateMethods
        \cup {"Bulk", "Create", "Index", "Update", "Delete", "DeleteByQuery",
              "UpdateByQuery"}

\* What the template engine yields for a TemplateParam, path by path.
DefaultPath(t) == Execute(t.Template, t.Data)
NamedPath(t) == ExecuteTemplate(t.Template, t.Name, t.Data)
EnginePath(t) == IF t.Name = "" THEN DefaultPath(t) ELSE NamedPath(t)

\* The options of request `req` that set `field`, in order.
OptionsSetting(req, field) == SelectSeq(req.o, LAMBDA x : x.set = field)
\* The query text a request carries: DeleteByQuery passes it as the body
\* argument, UpdateByQuery, Count and Search as the first Body option.
QueryOf(req) ==
    IF req.api = "DeleteByQuery" THEN req.body
    ELSE OptionsSetting(req, "Body")[1].val
\* The indexes a request names: an argument, or the first Index option.
IndexesOf(req) ==
    IF req.api \in {"DeleteByQuery", "UpdateByQuery"} THEN req.index
    ELSE OptionsSetting(req, "Index")[1].val
\* The options of a request after the adapter's own n options.
CallerPart(req, n) == SubSeq(req.o, n + 1, Len(req.o))
OwnOptions(api) == CASE api = "DeleteByQuery" -> 1
                     [] api = "UpdateByQuery" -> 2
                     [] OTHER -> 3

C2_ErrorStatusError ==
    Returned /\ method \in AdapterMethods /\ ErrorStatus =>
        /\ retErr # NoErr
        /\ Contains(retErr.msg,
                    <<CodeText(outcome.resp.StatusCode), " ",
                      StatusText(outcome.resp.StatusCode)>>)
        /\ Contains(retErr.msg, outcome.resp.Body)
        /\ CountOf("Decode", events) = 0
        /\ dest = EmptyObj

C2_Witness ==
    /\ Returned /\ method = "Delete" /\ ErrorStatus
    /\ outcome.resp.StatusCode = 404
    /\ outcome.resp.Body = <<"{", "found", ":", "true", "}">>
    /\ Contains(retErr.msg, <<"404", " ", "Not Found">>)
    /\ Contains(retErr.msg, <<"{", "found", ":", "true", "}">>)

\* C3: a model-returning operation returns either (the model, nil) or
\* (nil, a non-nil error); on every failure the value is nil.
C3_ModelOrNil ==
    Returned /\ method \in ModelMethods /\ ~panicked =>
        \/ retErr = NoErr /\ retVal = ModelVal(args.model)
        \/ retErr # NoErr /\ retVal = NilVal

\* C4: a template method whose template renders calls its string-accepting
\* counterpart once, with the rendered string unchanged and the same
\* context, indexes, model and options, and returns the counterpart's result.
Counterpart(name, query) ==
    CASE name = "DeleteByQueryTemplate" ->
            DeleteByQuery(args.ctx, query, args.indexes, args.opts, outcome, debugEnabled)
      [] name = "UpdateByQueryTemplate" ->
            UpdateByQuery(args.ctx, query, args.indexes, args.opts, outcome, debugEnabled)
      [] name = "CountTemplate" ->
            Count(args.ctx, query, args.indexes, args.opts, outcome, debugEnabled)
      [] name = "SearchTemplate" ->
            Search(args.ctx, args.model, query, args.indexes, args.opts, outcome,
                   debugEnabled)

C4_TemplateDelegates ==
    Returned /\ method \in TemplateMethods /\ EnginePath(args.t).err = NoErr =>
        LET rendered == EnginePath(args.t).str
            r == Counterpart(method, rendered)
        IN /\ Len(requests) = 1
           /\ CountOf("request", events) = 1
           /\ QueryOf(requests[1]) = rendered
           /\ IndexesOf(requests[1]) = args.indexes
           /\ OptionsSetting(requests[1], "Context")[1] = WithContext(args.ctx)
           /\ CallerPart(requests[1], OwnOptions(requests[1].api)) = args.opts
           /\ requests = r.requests
           /\ retVal = r.val /\ retErr = r.err /\ panicked = r.panicked
           /\ dest = r.dest
           /\ Len(events) = 1 + Len(r.events)
           /\ SubSeq(events, 2, Len(events)) = r.events
           /\ events[1] \in {"Execute", "ExecuteTemplate"}

C4_Witness ==
    /\ Returned /\ method = "UpdateByQueryTemplate"
    /\ args.t = [Template |-> "T1", Data |-> "d2", Name |-> "byId"]
    /\ args.opts # <<>>
    /\ Len(requests) = 1
    /\ QueryOf(requests[1]) = <<"{", "id", ":", "d2", "}">>
    /\ retErr = NoErr

\* C5: when rendering fails in a template method, the rendering error is
\* returned as it is and no request reaches the wrapped client.
C5_RenderFailure ==
    Returned /\ method \in TemplateMethods /\ EnginePath(args.t).err # NoErr =>
        /\ retErr = EnginePath(args.t).err
        /\ requests = <<>>
        /\ CountOf("request", events) = 0

C5_Witness ==
    /\ Returned /\ method = "DeleteByQueryTemplate"
    /\ args.t.Template = "T2" /\ args.t.Name = "broken"
    /\ retErr = ErrNoTemplate("broken")
    /\ requests = <<>>

\* C6: execute takes exactly one engine path per call, the default one
\* (Execute) iff Name is empty and the named one (ExecuteTemplate)
\* otherwise, and hands on that path's string and error unchanged.
C6_ExecuteMode ==
    Returned /\ method \in TemplateMethods =>
        LET t == args.t
            path == IF t.Name = "" THEN DefaultPath(t) ELSE NamedPath(t)
        IN /\ CountOf("Execute", events) + CountOf("ExecuteTemplate", events) = 1
           /\ (CountOf("Execute", events) = 1) <=> (t.Name = "")
           /\ execute(t).str = path.str
           /\ execute(t).err = path.err
           /\ path.err # NoErr => retErr = path.err
           /\ path.err = NoErr => QueryOf(requests[1]) = path.str

\* The named path is taken where the default path would have failed.
C6_Witness ==
    /\ Returned /\ method = "CountTemplate"
    /\ args.t = [Template |-> "T2", Data |-> "d1", Name |-> "byId"]
    /\ events[1] = "ExecuteTemplate"
    /\ DefaultPath(args.t).err # NoErr
    /\ QueryOf(requests[1]) = <<"{", "}">>

\* C7: for a successful response whose body is the JSON of a document, Get,
\* MultiGet, Search and SearchByScrollID return the caller's model with a
\* nil error, and the model holds that document.
C7_DecodedModel ==
    \A f \in Fixtures :
        Returned /\ method \in ModelMethods /\ OKStatus /\ ServesFixture(f) =>
            /\ retErr = NoErr
            /\ retVal = ModelVal(args.model)
            /\ dest = f
            /\ CountOf("Decode", events) = 1

C7_Witness ==
    /\ Returned /\ method = "SearchByScrollID" /\ OKStatus
    /\ ServesFixture([count |-> "1", took |-> "2"])
    /\ dest = [count |-> "1", took |-> "2"]
    /\ retVal = ModelVal("m1")

\* C8: Count and CountTemplate return (c, nil) for a successful response
\* whose body is an object with the number c under "count", and 0 with the
\* error on a transport error, an error status or a decode failure.
C8_Count ==
    Returned /\ method \in {"Count", "CountTemplate"} /\ requests # <<>> =>
        /\ \A c \in 0..MaxCount :
              OKStatus /\ (ServesFixture([count |-> NumTok(c)])
                            \/ (c = 1 /\ ServesFixture([count |-> "1", took |-> "2"])))
                => retVal = Int64Val(c) /\ retErr = NoErr /\ ~panicked
        /\ outcome.err # NoErr => retVal = Int64Val(0) /\ retErr = outcome.err
        /\ ErrorStatus => retVal = Int64Val(0) /\ retErr # NoErr
        /\ OKStatus /\ outcome.resp.Body \in BrokenBodies
                => retVal = Int64Val(0) /\ retErr # NoErr

C8_Witness ==
    /\ Returned /\ method = "Count" /\ OKStatus
    /\ ServesFixture([count |-> NumTok(MaxCount)])
    /\ retVal = Int64Val(MaxCount) /\ retErr = NoErr

\* C9: a transport error of the client call, an encode error of the request
\* payload and a decode error of the response body each reach the caller as
\* the very error the collaborator produced.
C9_ErrorsUnchanged ==
    Returned /\ method \in AdapterMethods =>
        /\ requests # <<>> /\ outcome.err # NoErr => retErr = outcome.err
        /\ method \in {"Create", "Index", "Update"} /\ args.obj.kind # "doc"
                => retErr = ErrUnsupportedType(args.obj.kind)
        /\ method \in DecodingMethods /\ OKStatus
                   /\ JSONDecode(outcome.resp.Body).err # NoErr
                => retErr = JSONDecode(outcome.resp.Body).err

C9_Witness ==
    /\ Returned /\ method = "MultiGet"
    /\ requests # <<>> /\ outcome.err = ErrTransport
    /\ retErr = ErrTransport

\* C10: a call asks the wrapped client at most once, whatever the outcome,
\* and a call that returns success has asked it exactly once.
C10_AtMostOneRequest ==
    Returned /\ method \in AdapterMethods =>
        /\ Len(requests) <= 1
        /\ CountOf("request", events) = Len(requests)
        /\ (retErr = NoErr /\ ~panicked => Len(requests) = 1)

C10_Witness ==
    /\ Returned /\ method = "DeleteByQuery"
    /\ outcome.err = ErrTransport
    /\ Len(requests) = 1
    /\ retErr # NoErr

\* The caller's options that set `field`.
CallerSets(field) == Setters(args.opts, field) # <<>>

\* C11 as claimed: every scroll request SearchByScrollID sends carries the
\* caller's scroll ID and a keepalive of exactly 5 minutes, whatever options
\* the caller supplies.
C11_ScrollAlwaysFiveMinutes ==
    Returned /\ method = "SearchByScrollID" /\ requests # <<>> =>
        /\ Sent(requests[1]).ScrollID = args.scrollID
        /\ Sent(requests[1]).Scroll = 5 * Minute

\* C11, amended: SearchByScrollID always passes the caller's scroll ID and a
\* keepalive of 5 minutes as its own options; the request sent carries them
\* unless a caller option sets the same field, and then it carries the
\* caller's (last) value for that field.
C11_ScrollFiveMinutesUnlessOverridden ==
    Returned /\ method = "SearchByScrollID" =>
        /\ Len(requests) = 1
        /\ requests[1].api = "Scroll"
        /\ Contains(requests[1].o, <<WithScrollID(args.scrollID), WithScroll(5 * Minute)>>)
        /\ ~CallerSets("ScrollID") => Sent(requests[1]).ScrollID = args.scrollID
        /\ ~CallerSets("Scroll") => Sent(requests[1]).Scroll = 5 * Minute
        /\ CallerSets("ScrollID") =>
             Sent(requests[1]).ScrollID = LastOf(Setters(args.opts, "ScrollID")).val[1]
        /\ CallerSets("Scroll") =>
             Sent(requests[1]).Scroll = LastOf(Setters(args.opts, "Scroll")).dur

C11_Witness ==
    /\ Returned /\ method = "SearchByScrollID"
    /\ args.scrollID = "s2"
    /\ args.opts = <<Option("Pretty", <<>>, 0)>>
    /\ Sent(requests[1]).ScrollID = "s2"
    /\ Sent(requests[1]).Scroll = 300

\* The first place of step `e` among `evs`, 0 if it is not there.
FirstAt(e, evs) ==
    IF \E i \in 1..Len(evs) : evs[i] = e
    THEN CHOOSE i \in 1..Len(evs) : evs[i] = e /\ \A j \in 1..(i - 1) : evs[j] # e
    ELSE 0
\* The message of the error built for an error status.
StatusErrorText(resp) ==
    <<CodeText(resp.StatusCode), " ", StatusText(resp.StatusCode), ", ", "[",
      CodeText(resp.StatusCode), " ", StatusText(resp.StatusCode), "]", " ">> \o resp.Body

\* C12: Bulk runs the caller's callback exactly once, before any request; if
\* the callback fails, its error is returned as it is and nothing is sent;
\* otherwise what it wrote is the body of exactly one bulk request for the
\* given index, an error status gives the status-and-body error and success
\* gives nil.
C12_Bulk ==
    Returned /\ method = "Bulk" =>
        LET w == args.writeReqBody
        IN /\ CountOf("writeReqBody", events) = 1
           /\ events[1] = "writeReqBody"
           /\ w.err # NoErr => retErr = w.err /\ requests = <<>>
                                /\ CountOf("request", events) = 0
           /\ w.err = NoErr =>
                /\ Len(requests) = 1
                /\ CountOf("request", events) = 1
                /\ requests[1].api = "Bulk"
                /\ Sent(requests[1]).Body = w.writes
                /\ ~CallerSets("Index") => Sent(requests[1]).Index = <<args.index>>
                /\ outcome.err # NoErr => retErr = outcome.err
                /\ ErrorStatus => /\ retErr.kind = "fmt.Errorf"
                                  /\ Contains(retErr.msg, StatusErrorText(outcome.resp))
                /\ OKStatus => retErr = NoErr

C12_Witness ==
    /\ Returned /\ method = "Bulk"
    /\ args.writeReqBody.err = ErrWriter
    /\ args.writeReqBody.writes # <<>>
    /\ retErr = ErrWriter
    /\ requests = <<>>

\* C13: Create, Index and Update encode the payload before the call (Update
\* as the value of a top-level "doc" field); a payload that does not encode
\* gives the error and no request; once the request is issued the result is
\* nil exactly when a response came back whose status is not an error.
C13_WritesEncodeFirst ==
    Returned /\ method \in {"Create", "Index", "Update"} =>
        LET doc == Marshal(args.obj.fields)
        IN /\ events[1] = "Encode"
           /\ CountOf("Encode", events) = 1
           /\ args.obj.kind # "doc" => retErr # NoErr /\ requests = <<>>
           /\ args.obj.kind = "doc" =>
                /\ Len(requests) = 1
                /\ FirstAt("Encode", events) < FirstAt("request", events)
                /\ requests[1].api = method
                /\ Sent(requests[1]).Body =
                      (IF method = "Update"
                       THEN <<"{", "doc", ":">> \o doc \o <<"}", "\n">>
                       ELSE doc \o <<"\n">>)
                /\ (retErr = NoErr) <=> OKStatus

C13_Witness ==
    /\ Returned /\ method = "Update" /\ OKStatus
    /\ Sent(requests[1]).Body =
          <<"{", "doc", ":", "{", "title", ":", "\"x\"", "}", "}", "\n">>
    /\ retErr = NoErr

\* C15: Count (and CountTemplate) always returns to its caller, with (n, nil)
\* or (0, a non-nil error), whatever the response; a successful body without
\* a numeric "count" gives an error, not a panic.
C15_CountAlwaysReturns ==
    Returned /\ method \in {"Count", "CountTemplate"} =>
        /\ ~panicked
        /\ retErr # NoErr => retVal = Int64Val(0)
        /\ OKStatus /\ (\E f \in Fixtures :
                           /\ ServesFixture(f)
                           /\ ("count" \notin DOMAIN f \/ ~IsNumTok(f["count"])))
             => retErr # NoErr

\* C16: within a call every read of the response body comes before its
\* close: the decode on the success path and the reading of the body text
\* into the error on the error-status path; nothing is read once it is
\* closed, the close being the last thing the call does.
BodyReads == {"Decode", "newRespErr"}
C16_ReadsBeforeClose ==
    Returned /\ method \in AdapterMethods /\ GotResponse =>
        LET c == FirstAt("Close", events)
        IN /\ c = Len(events)
           /\ \A i \in 1..Len(events) : events[i] \in BodyReads => i < c
           /\ ErrorStatus => 0 < FirstAt("newRespErr", events)
           /\ OKStatus /\ method \in DecodingMethods => 0 < FirstAt("Decode", events)

C16_Witness ==
    /\ Returned /\ method = "Search" /\ ErrorStatus
    /\ outcome.resp.Body # <<>>
    /\ FirstAt("newRespErr", events) + 1 = FirstAt("Close", events)

\* The options a method passes on its own account, ahead of the caller's.
OwnOptionsOf(m, a) ==
    LET q == IF m \in TemplateMethods THEN EnginePath(a.t).str ELSE a.query
    IN CASE m = "MultiGet" -> <<WithContext(a.ctx), WithIndex(<<a.index>>)>>
         [] m = "Bulk" -> <<WithIndex(<<a.index>>), WithContext(a.ctx)>>
         [] m = "Index" -> <<WithContext(a.ctx), WithDocumentID(a.id)>>
         [] m \in {"UpdateByQuery", "UpdateByQueryTemplate"} ->
              <<WithBody(q), WithContext(a.ctx)>>
         [] m \in {"Count", "CountTemplate", "Search", "SearchTemplate"} ->
              <<WithContext(a.ctx), WithIndex(a.indexes), WithBody(q)>>
         [] m = "SearchByScrollID" ->
              <<WithContext(a.ctx), WithScrollID(a.scrollID), WithScroll(5 * Minute)>>
         [] OTHER -> <<WithContext(a.ctx)>>

\* C17: the options of a request are the adapter's own, then the caller's,
\* each in the given order, none dropped or repeated; so a caller option
\* that sets a field an own option sets decides what is sent.
C17_OwnThenCallerOptions ==
    Returned /\ method \in AdapterMethods /\ requests # <<>> =>
        LET own == OwnOptionsOf(method, args)
            sent == Sent(requests[1])
        IN /\ requests[1].o = own \o args.opts
           /\ CallerSets("Context") =>
                sent.Context = LastOf(Setters(args.opts, "Context")).val
           /\ CallerSets("ScrollID") =>
                sent.ScrollID = LastOf(Setters(args.opts, "ScrollID")).val[1]
           /\ CallerSets("Scroll") =>
                sent.Scroll = LastOf(Setters(args.opts, "Scroll")).dur
           /\ ~CallerSets("Context") => sent.Context = <<args.ctx>>

C17_Witness ==
    /\ Returned /\ method = "Search"
    /\ args.ctx = "ctx1"
    /\ args.opts = <<WithContext("ctx9")>>
    /\ Len(requests[1].o) = 4
    /\ Sent(requests[1]).Context = <<"ctx9">>

\* C18: when a model-returning method fails on rendering, on encoding, on
\* the transport or on an error status, the caller's model is as it was:
\* nothing was decoded into it.
C18_ModelUntouchedOnFailure ==
    Returned /\ method \in ModelMethods
             /\ (requests = <<>> \/ outcome.err # NoErr \/ ErrorStatus) =>
        /\ retErr # NoErr
        /\ dest = EmptyObj
        /\ CountOf("Decode", events) = 0

C18_Witness ==
    /\ Returned /\ method = "MultiGet" /\ ErrorStatus
    /\ ServesFixture([found |-> "true"])
    /\ dest = EmptyObj
    /\ retErr # NoErr

\* C19: Delete, which takes the ID before the index, asks for the deletion
\* of document `id` in index `index`; Get, Create, Index and Update, which
\* take the index first, name them the same way round.
C19_IndexAndIdNotSwapped ==
    Returned /\ method \in {"Delete", "Get", "Create", "Index", "Update"}
             /\ requests # <<>> =>
        /\ requests[1].api = method
        /\ requests[1].index = <<args.index>>
        /\ ~CallerSets("Index") => Sent(requests[1]).Index = <<args.index>>
        /\ ~CallerSets("DocumentID") => Sent(requests[1]).DocumentID = args.id

C19_Witness ==
    /\ Returned /\ method = "Delete"
    /\ args.id = "id2" /\ args.index = "i1"
    /\ Sent(requests[1]).Index = <<"i1">>
    /\ Sent(requests[1]).DocumentID = "id2"

\* C14: however concurrent calls on one adapter interleave, what a call
\* returns depends only on its own arguments and the answer to its own
\* request, the body of a response is closed by the call that got it and by
\* no other, and the adapter's client reference stays what it was.
C14_CallsDoNotInterfere ==
    /\ client = "c1"
    /\ \A p \in Procs :
         /\ closedBy[p] \in {<<>>, <<p>>}
         /\ calls[p].pc \in {"answered", "done"} /\ calls[p].out.to # "none"
              => calls[p].out.to = p
         /\ calls[p].pc = "done" =>
              LET c == calls[p]
                  alone == Handle(c.method, c.args, c.out, debugEnabled)
              IN /\ c.res.val = alone.val
                 /\ c.res.err = alone.err
                 /\ c.res.panicked = alone.panicked
                 /\ c.res.dest = alone.dest
                 /\ (closedBy[p] = <<p>>) <=> (c.res.requests # <<>> /\ c.out.err = NoErr)
                 /\ c.method = "ESClient" => c.res.val.ref = client

\* One call has returned while the other still holds an open response, and
\* the two were answered differently.
C14_Witness ==
    /\ calls["g2"].pc = "done" /\ calls["g1"].pc = "answered"
    /\ calls["g1"].out.err = NoErr /\ calls["g2"].out.err = NoErr
    /\ calls["g1"].out.resp # calls["g2"].out.resp
    /\ closedBy["g2"] = <<"g2">> /\ closedBy["g1"] = <<>>
====
